---- MODULE Spec2Model ----
(***************************************************************************)
(* DocuFlow: the generation pipeline of src/App.tsx (handleGenerate,       *)
(* updateSlide, handleRegenerateImage) over the two React state cells      *)
(* `status` and `presentation` (the Store), with the two collaborators of  *)
(* src/services/geminiService.ts.                                          *)
(*                                                                         *)
(* One action is one synchronous segment of a handler: the code between    *)
(* two awaits runs to completion on the single UI thread, so every         *)
(* setState call of the segment is part of the same step.  A handler       *)
(* called by the user reads `presentation` of the latest render; an async  *)
(* handler keeps the values its closure captured when it was called.       *)
(*                                                                         *)
(* Optional values: `presentation` is <<>> for null and <<p>> otherwise;   *)
(* an absent imageUrl is the string "undefined"; an absent number is -1.   *)
(* Slide indices are 0-based as in the code; a sequence is read at i + 1.  *)
(***************************************************************************)
EXTENDS Integers, Sequences, FiniteSets, TLC

\* ---- bounds of the model ----
MaxSlides == 2
MaxCycles == 2
MaxRegens == 1
MaxGestures == 2
MaxHydrations == 2
MaxItems == 4
MaxArtCalls == 2

VARIABLES
  hasStarted,         \* App.tsx:548
  status,             \* App.tsx:551  GenerationStatus
  presentation,       \* App.tsx:552  <<>> (null) or <<Presentation>>
  currentSlideIndex,  \* App.tsx:553
  mounted,            \* FALSE once a render of App has thrown
  apiKey,             \* geminiService.ts:6  process.env.API_KEY is set
  alertOpen,          \* the alert() of App.tsx:593 is on screen
  cycles,             \* the calls of handleGenerate: locals and position
  regens              \* the calls of handleRegenerateImage in flight

\* The canvas of one slide (SlideRenderer) and the Layout Hydrator, which
\* the generation pipeline does not touch.
VARIABLES
  slide,              \* SlideRenderer's `slide` prop, as its parent holds it
  selectedElementId,  \* SlideRenderer's `selectedElementId` prop (Null: none)
  isDragging,         \* SlideRenderer state
  isResizing,         \* SlideRenderer state
  dragStart,          \* SlideRenderer state: pointer position at pointer-down
  elementStart,       \* SlideRenderer state: element geometry at pointer-down
  scale,              \* SlideRenderer's `scale` prop, in halves (2 is 1.0)
  box,                \* pixel size of SlideRenderer's outer element
  gesture,            \* history: the element and the pointer at pointer-down
  gestures,           \* the number of pointer-downs so far
  hydInput,           \* the slide given to hydrateLayoutToElements
  hydCalls            \* the results of the calls of hydrateLayoutToElements

VARIABLES
  artInput,           \* the arguments of generateSlideImage: prompt and style
  artCalls            \* the art directions of the requests built from them

canvasVars == <<slide, selectedElementId, isDragging, isResizing, dragStart,
                elementStart, scale, box, gesture, gestures>>
hydVars == <<hydInput, hydCalls>>
artVars == <<artInput, artCalls>>
offApp == <<canvasVars, hydVars, artVars>>
appVars == <<hasStarted, status, presentation, currentSlideIndex,
             mounted, apiKey, alertOpen, cycles, regens>>

vars == <<hasStarted, status, presentation, currentSlideIndex,
          mounted, apiKey, alertOpen, cycles, regens, offApp>>

\* ---- values ----
Undefined == "undefined"
Pending == ""
ImageRefs == {"img"}
Absent == -1

Cycles == 1..MaxCycles
Regens == 1..MaxRegens

\* types.ts:65-71 and App.tsx:525-529
INITIAL_STATUS ==
  [stage |-> "IDLE", message |-> "Ready to create", progress |-> 0,
   currentSlideIndex |-> Absent, totalSlides |-> Absent]

SetStatus(stage, message, progress) ==
  [stage |-> stage, message |-> message, progress |-> progress,
   currentSlideIndex |-> Absent, totalSlides |-> Absent]

\* A slide descriptor of the Structure Generator's response
\* (geminiService.ts:80-103: no imageUrl among the properties).
ResponseSlide(i, prompt) ==
  [id |-> i, visualPrompt |-> prompt, imageUrl |-> Undefined,
   speakerNotes |-> "gen"]

RECURSIVE PromptSeqs(_)
PromptSeqs(n) ==
  IF n = 0 THEN {<<>>}
  ELSE {Append(s, p) : s \in PromptSeqs(n - 1), p \in {"", "prompt"}}

\* The slide lists a response can carry, up to MaxSlides slides.
Decks ==
  {[j \in 1..Len(ps) |-> ResponseSlide(j - 1, ps[j])] :
     ps \in UNION {PromptSeqs(n) : n \in 0..MaxSlides}}

\* What generatePresentationStructure can do (geminiService.ts:63-119).
StructureFailures == {"throw", "notext", "badjson"}
StructureMismatches == {"jsonnull", "noslides"}

\* ---- the Store ----

\* A first publish that marks every slide's image as pending.
InitialPresentationPending(title, theme, slides, defined) ==
  [title |-> title,
   slides |-> [j \in 1..Len(slides) |-> [slides[j] EXCEPT !.imageUrl = Pending]],
   slidesDefined |-> defined,
   style |-> [theme |-> IF theme = "" THEN "modern" ELSE theme,
              primaryColor |-> "",
              fontScale |-> 1,
              visualStyle |-> "isometric-3d"]]

\* App.tsx:612-621: initialPresentation. `structure.slides` is taken as it
\* is: for a response without a slides list it is undefined.
InitialPresentation(title, theme, slides, defined) ==
  [title |-> title,
   slides |-> slides,
   slidesDefined |-> defined,
   style |-> [theme |-> IF theme = "" THEN "modern" ELSE theme,
              primaryColor |-> "",
              fontScale |-> 1,
              visualStyle |-> "isometric-3d"]]

\* App.tsx:757, 837, 887-1180: the landing page and the upload form read no
\* slide; the workspace reads presentation.slides.map (893, 969) and
\* presentation.slides[currentSlideIndex] (990, 1066), which throw for an
\* undefined list or a missing slide; an error thrown while rendering
\* unmounts the application.
RenderOK(started, pres, idx) ==
  \/ ~started
  \/ pres = <<>>
  \/ /\ pres[1].slidesDefined
     /\ idx < Len(pres[1].slides)

\* A segment's setStatus / setPresentation calls, followed by the render.
Commit(newStatus, newPres) ==
  /\ status' = newStatus
  /\ presentation' = newPres
  /\ mounted' = RenderOK(hasStarted, newPres, currentSlideIndex)

\* Handlers and continuations act on the mounted application only: once a
\* render has thrown, React has removed the component and its state, and the
\* setters of a continuation still in flight change nothing.
Alive ==
  /\ mounted
  /\ ~alertOpen

\* ---- handleGenerate (App.tsx:591-656) ----

Event(e, i, r) == [e |-> e, i |-> i, r |-> r]

\* The locals of one call of handleGenerate. `file` and `notes` are the
\* closure's values until the Structure Generator call has returned (they
\* are not read after App.tsx:610), `request` the structure request in flight, `log` the
\* history of what the call has asked of the collaborators and of the Store.
NoRequest == "none"

IdleCycle ==
  [pc |-> "idle", file |-> "none", notes |-> "", request |-> NoRequest,
   updatedSlides |-> <<>>, i |-> Absent, log |-> <<>>, storeAtStart |-> <<>>]

\* App.tsx:549-550, 581-585, 851-871: the upload form. `file` and `notes`
\* are read by handleGenerate only, so what the form holds when Generate is
\* pressed is the input of that call: no file, a file with a media type, or
\* a file whose declared type is empty; empty or non-empty notes.
Files == {"none", "pdf", "nomime"}
NotesTexts == {"", "n"}

\* A check that lets every input through.
RejectsNothing(f, n) == FALSE

\* App.tsx:592: if (!file && !notes)
Rejects(f, n) == f = "none" /\ n = ""

\* geminiService.ts:54: if (fileBase64 && fileMimeType)
CarriesDocument(f) == f = "pdf"

\* App.tsx:608-610 with geminiService.ts:5-9, 16, 52-63: setStatus
\* GENERATING_STRUCTURE, then the call of generatePresentationStructure up to
\* its await. Without an API key getAiClient throws before anything is sent
\* and the rejection is handled before any other event: the catch
\* (App.tsx:652-655) runs in the same step.
EnterStructure(cyc) ==
  IF apiKey
    THEN [cycle |-> [cyc EXCEPT !.pc = "structure",
                                !.request = IF CarriesDocument(cyc.file) THEN "doc" ELSE "nodoc",
                                !.log = <<Event("structReq", Absent, "")>>],
          status |-> SetStatus("GENERATING_STRUCTURE", "Architecting narrative flow...", 30)]
    ELSE [cycle |-> [cyc EXCEPT !.pc = "done", !.file = "none", !.notes = ""],
          status |-> SetStatus("ERROR", "Error: API_KEY not found in environment variables", 0)]

\* A catch that reports the failure but leaves the stage IDLE.
ErrorStatusStaysIdle(message) == SetStatus("IDLE", message, 0)

\* App.tsx:654: the catch of handleGenerate
ErrorStatus(message) == SetStatus("ERROR", message, 0)

\* App.tsx:650
CompleteStatus == SetStatus("COMPLETE", "Deck Ready", 100)

\* The call slot a new call of handleGenerate takes.
FreeCycle == CHOOSE c \in Cycles : cycles[c].pc = "idle" /\ \A d \in 1..(c - 1) : cycles[d].pc # "idle"

\* App.tsx:874-879 is rendered by the upload form only (App.tsx:837), and
\* carries no `disabled`; handleGenerate itself reads `file` and `notes` only.
GenerateEnabled ==
  /\ Alive
  /\ hasStarted
  /\ presentation = <<>>

\* App.tsx:592-595: alert() blocks the UI thread until it is dismissed, then
\* the handler returns; no other handler or continuation runs meanwhile.
GenerateRejected(file, notes) ==
  /\ GenerateEnabled
  /\ Rejects(file, notes)
  /\ alertOpen' = TRUE
  /\ UNCHANGED <<hasStarted, status, presentation,
                 currentSlideIndex, mounted, apiKey, cycles, regens, offApp>>

\* App.tsx:597-610, up to the first await: fileToBase64 when a file was
\* chosen, else the Structure Generator call.
Generate(file, notes) ==
  /\ GenerateEnabled
  /\ ~Rejects(file, notes)
  /\ \E c \in Cycles : cycles[c].pc = "idle"
  /\ LET c == FreeCycle
         started == [IdleCycle EXCEPT !.file = file, !.notes = notes,
                                      !.storeAtStart = presentation]
     IN IF file # "none"
          THEN /\ cycles' = [cycles EXCEPT ![c] = [started EXCEPT !.pc = "encoding"]]
               /\ Commit(SetStatus("ANALYZING_DOC", "Analyzing document structure & intent...", 10),
                         presentation)
          ELSE /\ cycles' = [cycles EXCEPT ![c] = EnterStructure(started).cycle]
               /\ Commit(EnterStructure(started).status, presentation)
  /\ UNCHANGED <<hasStarted, currentSlideIndex, apiKey, alertOpen, regens, offApp>>

\* App.tsx:604-608 and utils.ts:1-16: fileToBase64 resolves or rejects.
EncodeResolve(c, ok) ==
  /\ Alive
  /\ cycles[c].pc = "encoding"
  /\ IF ok
       THEN /\ cycles' = [cycles EXCEPT ![c] = EnterStructure(cycles[c]).cycle]
            /\ Commit(EnterStructure(cycles[c]).status, presentation)
       ELSE /\ cycles' = [cycles EXCEPT ![c].pc = "done", ![c].file = "none", ![c].notes = ""]
            /\ Commit(ErrorStatus("Error: Unknown error"), presentation)
  /\ UNCHANGED <<hasStarted, currentSlideIndex, apiKey, alertOpen, regens, offApp>>

\* App.tsx:624
ImagesStatus(total) ==
  [stage |-> "GENERATING_IMAGES", message |-> "Rendering Slide 1...",
   progress |-> 40, currentSlideIndex |-> 0, totalSlides |-> total]

\* App.tsx:632-637: setStatus(prev => ({...prev, message, progress,
\* currentSlideIndex})) for the slide at index i of n.
SlideStatus(prev, i, n) ==
  [prev EXCEPT !.message = "Illustrating slide",
               !.progress = 40 + ((i + 1) * 60) \div n,
               !.currentSlideIndex = i + 1]

\* App.tsx:629-631: the first index at or after `from` whose slide has a
\* visualPrompt; Len(us) when the loop runs off the end.
RECURSIVE NextPrompt(_, _)
\* A loop without the `if (slide.visualPrompt)` of App.tsx:631: every slide
\* is sent to the Image Generator.
NextSlide(us, from) == IF from >= Len(us) THEN Len(us) ELSE from

NextPrompt(us, from) ==
  IF from >= Len(us) THEN Len(us)
  ELSE IF us[from + 1].visualPrompt # "" THEN from
  ELSE NextPrompt(us, from + 1)

\* App.tsx:629-650: the loop from index `from` up to its next await, or to
\* COMPLETE. generateSlideImage (geminiService.ts:122-125) throws only when
\* getAiClient does; the catch at App.tsx:644 then skips the slide.
RECURSIVE LoopFrom(_, _, _)
\* A loop for which a failed image request is fatal: it ends the call with
\* ERROR instead of going on to the next slide.
LoopAbortsOnFailure(cyc, from, st) ==
  LET us == cyc.updatedSlides
      j == NextPrompt(us, from)
  IN IF from > 0 /\ us[from].imageUrl = Pending
       THEN [cycle |-> [cyc EXCEPT !.pc = "done", !.i = Absent],
             status |-> SetStatus("ERROR", "Error: image", 0)]
     ELSE IF j >= Len(us)
       THEN [cycle |-> [cyc EXCEPT !.pc = "done", !.i = Absent],
             status |-> SetStatus("COMPLETE", "Deck Ready", 100)]
     ELSE [cycle |-> [cyc EXCEPT !.pc = "image", !.i = j,
                                 !.log = Append(@, Event("imgReq", j, ""))],
           status |-> SlideStatus(st, j, Len(us))]

LoopFrom(cyc, from, st) ==
  LET us == cyc.updatedSlides
      j == NextPrompt(us, from)
  IN IF j >= Len(us)
       THEN [cycle |-> [cyc EXCEPT !.pc = "done", !.i = Absent],
             status |-> CompleteStatus]
       ELSE IF apiKey
         THEN [cycle |-> [cyc EXCEPT !.pc = "image", !.i = j,
                                     !.log = Append(@, Event("imgReq", j, ""))],
               status |-> SlideStatus(st, j, Len(us))]
         ELSE LoopFrom(cyc, j + 1, SlideStatus(st, j, Len(us)))

\* App.tsx:612-626, 652-655 with geminiService.ts:111-119: what follows the
\* await of generatePresentationStructure.
\*   throw, notext, badjson: the call rejects; the catch sets ERROR.
\*   jsonnull: JSON.parse gives null; `structure.title` throws.
\*   noslides: JSON.parse gives an object without `slides`;
\*     setPresentation(initialPresentation) at 623 runs, then
\*     `structure.slides.length` at 624 throws.
\*   ok: a response with a slides list.
StructureResolve(c, out, deck) ==
  /\ Alive
  /\ cycles[c].pc = "structure"
  /\ IF out \in StructureFailures
       THEN /\ cycles' = [cycles EXCEPT ![c].pc = "done",
                                        ![c].file = "none", ![c].notes = "",
                                        ![c].request = NoRequest,
                                        ![c].log = Append(@, Event("structFail", Absent, ""))]
            /\ Commit(ErrorStatus(out), presentation)
     ELSE IF out = "jsonnull"
       THEN /\ cycles' = [cycles EXCEPT ![c].pc = "done",
                                        ![c].file = "none", ![c].notes = "",
                                        ![c].request = NoRequest,
                                        ![c].log = Append(@, Event("structOk", Absent, out))]
            /\ Commit(ErrorStatus("TypeError"), presentation)
     ELSE IF out = "noslides"
       THEN /\ cycles' = [cycles EXCEPT ![c].pc = "done",
                                        ![c].file = "none", ![c].notes = "",
                                        ![c].request = NoRequest,
                                        ![c].log = @ \o <<Event("structOk", Absent, out),
                                                          Event("publish", Absent, out)>>]
            /\ Commit(ErrorStatus("TypeError"),
                      <<InitialPresentation("gen", "tech", <<>>, FALSE)>>)
     ELSE LET published == [cycles[c] EXCEPT
                              !.file = "none", !.notes = "",
                              !.request = NoRequest,
                              !.updatedSlides = deck,
                              !.log = @ \o <<Event("structOk", Absent, out),
                                             Event("publish", Absent, out)>>]
              next == LoopFrom(published, 0, ImagesStatus(Len(deck)))
          IN /\ cycles' = [cycles EXCEPT ![c] = next.cycle]
             /\ Commit(next.status, <<InitialPresentation("gen", "tech", deck, TRUE)>>)
  /\ UNCHANGED <<hasStarted, currentSlideIndex, apiKey, alertOpen, regens, offApp>>

\* App.tsx:643: setPresentation(prev => prev ? ({...prev, slides:
\* [...updatedSlides]}) : null)
Republish(prev, us) ==
  IF prev = <<>> THEN <<>>
  ELSE <<[prev[1] EXCEPT !.slides = us, !.slidesDefined = TRUE]>>

\* App.tsx:641-650 with geminiService.ts:166-183: what follows the await of
\* generateSlideImage for slide i. The call resolves with the image data, or
\* with "" when the collaborator fails or sends no image.
ImageResolve(c, result) ==
  /\ Alive
  /\ cycles[c].pc = "image"
  /\ LET i == cycles[c].i
         us == [cycles[c].updatedSlides EXCEPT ![i + 1].imageUrl = result]
         written == [cycles[c] EXCEPT
                       !.updatedSlides = us,
                       !.log = @ \o <<Event("imgRes", i, result),
                                      Event("republish", i, result)>>]
         next == LoopFrom(written, i + 1, status)
     IN /\ cycles' = [cycles EXCEPT ![c] = next.cycle]
        /\ Commit(next.status, Republish(presentation, us))
  /\ UNCHANGED <<hasStarted, currentSlideIndex, apiKey, alertOpen, regens, offApp>>

\* ---- the workspace (App.tsx:887-1180) ----

\* The workspace is what App renders once a presentation exists.
WorkspaceShown ==
  /\ Alive
  /\ hasStarted
  /\ presentation # <<>>

\* App.tsx:587-589
handleStart ==
  /\ Alive
  /\ ~hasStarted
  /\ hasStarted' = TRUE
  /\ UNCHANGED <<status, presentation, currentSlideIndex,
                 mounted, apiKey, alertOpen, cycles, regens, offApp>>

\* App.tsx:975: a thumbnail sets the current slide (nextSlide and prevSlide,
\* 690-700, reach the same indices).
setCurrentSlideIndex(idx) ==
  /\ WorkspaceShown
  /\ idx \in 0..(Len(presentation[1].slides) - 1)
  /\ currentSlideIndex' = idx
  /\ UNCHANGED <<hasStarted, status, presentation,
                 mounted, apiKey, alertOpen, cycles, regens, offApp>>

\* App.tsx:658-663: newSlides[currentSlideIndex] = updatedSlide
ReplaceSlide(pres, idx, updatedSlide) ==
  <<[pres[1] EXCEPT !.slides = [@ EXCEPT ![idx + 1] = updatedSlide]]>>

\* App.tsx:1171 (and 1065, 1152, SlideRenderer's onUpdate): the user edits
\* the current slide; speakerNotes stands for every field a user edits.
updateSlide ==
  /\ WorkspaceShown
  /\ LET updatedSlide == [presentation[1].slides[currentSlideIndex + 1]
                            EXCEPT !.speakerNotes = "user"]
     IN Commit(status, ReplaceSlide(presentation, currentSlideIndex, updatedSlide))
  /\ UNCHANGED <<hasStarted, currentSlideIndex, apiKey, alertOpen,
                 cycles, regens, offApp>>

\* App.tsx:928-932: the title input of the workspace;
\* setPresentation({...presentation, title: e.target.value}).
setTitle(title) ==
  /\ WorkspaceShown
  /\ Commit(status, <<[presentation[1] EXCEPT !.title = title]>>)
  /\ UNCHANGED <<hasStarted, currentSlideIndex, apiKey, alertOpen,
                 cycles, regens, offApp>>

\* App.tsx:1082-1089: a theme button of the design panel;
\* setPresentation({...presentation, style: {...presentation.style, theme: t}}).
\* The buttons for visualStyle (1109) and primaryColor (1131) write the
\* style record in the same way.
setTheme(t) ==
  /\ WorkspaceShown
  /\ Commit(status, <<[presentation[1] EXCEPT !.style.theme = t]>>)
  /\ UNCHANGED <<hasStarted, currentSlideIndex, apiKey, alertOpen,
                 cycles, regens, offApp>>

\* ---- handleRegenerateImage (App.tsx:665-683) ----

IdleRegen == [pc |-> "idle", index |-> Absent, snapshot |-> <<>>]

\* App.tsx:667: presentation.slides.findIndex(s => s.id === slideId)
RECURSIVE FindIndexFrom(_, _, _)
FindIndexFrom(slides, slideId, from) ==
  IF from >= Len(slides) THEN -1
  ELSE IF slides[from + 1].id = slideId THEN from
  ELSE FindIndexFrom(slides, slideId, from + 1)

FindIndex(slides, slideId) == FindIndexFrom(slides, slideId, 0)

\* App.tsx:670-672 and 677-679: both writes are built from the
\* `presentation` the handler's closure captured when it was called.
WithImage(captured, index, image) ==
  <<[captured[1] EXCEPT !.slides = [@ EXCEPT ![index + 1].imageUrl = image]]>>

FreeRegen == CHOOSE r \in Regens : regens[r].pc = "idle" /\ \A q \in 1..(r - 1) : regens[q].pc # "idle"

\* App.tsx:1155-1163 calling 665-676: the Regenerate button, up to the await
\* of generateSlideImage.
handleRegenerateImage ==
  /\ WorkspaceShown
  /\ \E r \in Regens : regens[r].pc = "idle"
  /\ LET s == presentation[1].slides[currentSlideIndex + 1]
         index == FindIndex(presentation[1].slides, s.id)
     IN /\ s.visualPrompt # ""
        /\ index # -1
        /\ regens' = [regens EXCEPT ![FreeRegen] =
                        IF apiKey
                          THEN [pc |-> "await", index |-> index, snapshot |-> presentation]
                          ELSE IdleRegen]
        /\ Commit(status, WithImage(presentation, index, Pending))
  /\ UNCHANGED <<hasStarted, currentSlideIndex, apiKey, alertOpen, cycles, offApp>>

\* A regeneration that reports a failed request as a failed generation.
RegenResolveReportsError(r, result) ==
  /\ Alive
  /\ regens[r].pc = "await"
  /\ regens' = [regens EXCEPT ![r] = IdleRegen]
  /\ Commit(IF result = Pending THEN SetStatus("ERROR", "Failed to regen", 0) ELSE status,
            WithImage(regens[r].snapshot, regens[r].index, result))
  /\ UNCHANGED <<hasStarted, currentSlideIndex, apiKey, alertOpen, cycles, offApp>>

\* App.tsx:676-679 with geminiService.ts:166-183: what follows the await.
RegenResolve(r, result) ==
  /\ Alive
  /\ regens[r].pc = "await"
  /\ regens' = [regens EXCEPT ![r] = IdleRegen]
  /\ Commit(status, WithImage(regens[r].snapshot, regens[r].index, result))
  /\ UNCHANGED <<hasStarted, currentSlideIndex, apiKey, alertOpen, cycles, offApp>>

\* App.tsx:593-594: the user dismisses the alert; handleGenerate returns.
DismissAlert ==
  /\ alertOpen
  /\ alertOpen' = FALSE
  /\ UNCHANGED <<hasStarted, status, presentation,
                 currentSlideIndex, mounted, apiKey, cycles, regens, offApp>>

\* ---- numbers of the canvas ----

\* A JavaScript number of the canvas, or the "auto" sentinel of a height
\* (part_001:44): a finite value, NaN, Infinity or -Infinity. All finite
\* values of the model are whole numbers: the pixel sizes and pointer
\* positions below are chosen so that every quotient the code takes is exact.
Num(n) == [k |-> "number", v |-> n]
NaN == [k |-> "NaN", v |-> 0]
Infinity == [k |-> "Infinity", v |-> 0]
NegInfinity == [k |-> "-Infinity", v |-> 0]
Auto == [k |-> "auto", v |-> 0]

\* typeof h === 'number' (part_003:100, 135): true of NaN and the infinities.
IsNumber(h) == h.k # "auto"

IsFinite(a) == a.k = "number"

\* a + b: a finite, b any number.
Plus(a, b) == IF IsFinite(b) THEN Num(a.v + b.v) ELSE b

\* Math.max(5, a): NaN when a is NaN.
Max5(a) ==
  IF a.k = "NaN" THEN NaN
  ELSE IF a.k = "Infinity" THEN Infinity
  ELSE IF a.k = "-Infinity" THEN Num(5)
  ELSE IF a.v < 5 THEN Num(5)
  ELSE a

\* ---- the Layout Hydrator (part_001:30-113) ----

\* A text is a sequence of pieces; "" is <<>>. The template of part_001:72,
\* a bullet character and a space before the point, is BulletPrefix \o point;
\* the one of part_001:98, an em dash and a space, is DashPrefix \o subtitle.
BulletPrefix == <<"(bullet) ">>
DashPrefix == <<"(em dash) ">>

Falsy(text) == text = <<>>

\* slide.imageUrl as a condition (part_001:52, 66, 104): neither absent nor "".
HasImage(s) == s.imageUrl \notin {Undefined, Pending}

\* part_001:39-47: addText. `ids` are the values generateId will return to
\* this call of hydrateLayoutToElements, in order; fontSize is in tenths.
addText(elements, ids, text, x, y, w, size, weight, align) ==
  IF Falsy(text) THEN elements
  ELSE Append(elements,
              [id |-> ids[Len(elements) + 1],
               type |-> "text",
               content |-> text,
               x |-> Num(x), y |-> Num(y), width |-> Num(w), height |-> Auto,
               style |-> [fontSize |-> size, fontWeight |-> weight,
                          textAlign |-> align, zIndex |-> 10]])

\* part_001:50-60: addImage.
addImage(elements, ids, s, x, y, w, h) ==
  Append(elements,
         [id |-> ids[Len(elements) + 1],
          type |-> "image",
          content |-> IF HasImage(s) THEN <<"data:image/png;base64,", s.imageUrl>>
                      ELSE <<>>,
          x |-> Num(x), y |-> Num(y), width |-> Num(w), height |-> Num(h),
          style |-> [zIndex |-> 1]])

\* A stack whose first item is one step below its place.
RECURSIVE StackOneStepDown(_, _, _, _, _, _, _, _, _)
StackOneStepDown(elements, ids, content, i, prefix, x, y0, step, w) ==
  IF i >= Len(content) THEN elements
  ELSE StackOneStepDown(addText(elements, ids, prefix \o content[i + 1],
                                x, y0 + (i + 1) * step, w, 12, "normal", "left"),
                        ids, content, i + 1, prefix, x, y0, step, w)

\* slide.content.forEach of part_001:71-73, 79-81, 105-107, from index i:
\* addText(prefix + point, x, y0 + i * step, w, 1.2, 'normal', 'left').
RECURSIVE StackFrom(_, _, _, _, _, _, _, _, _)
StackFrom(elements, ids, content, i, prefix, x, y0, step, w) ==
  IF i >= Len(content) THEN elements
  ELSE StackFrom(addText(elements, ids, prefix \o content[i + 1],
                         x, y0 + i * step, w, 12, "normal", "left"),
                 ids, content, i + 1, prefix, x, y0, step, w)

\* A BULLETS layout that stacks the items in one column.
BulletsInOneColumn(elements, ids, content, i) ==
  StackFrom(elements, ids, content, i, <<>>, 10, 30, 15, 40)

\* slide.content.forEach of part_001:87-92, from index i.
RECURSIVE BulletsFrom(_, _, _, _)
BulletsFrom(elements, ids, content, i) ==
  IF i >= Len(content) THEN elements
  ELSE LET col == IF i % 2 = 0 THEN 10 ELSE 55
           row == 30 + ((i \div 2) * 15)
       IN BulletsFrom(addText(elements, ids, content[i + 1], col, row, 40, 15,
                              "normal", "left"),
                      ids, content, i + 1)

\* A QUOTE layout that shows the last content item.
LastContent(s) == IF Len(s.content) = 0 THEN <<>> ELSE s.content[Len(s.content)]

\* slide.content[0] (part_001:97): undefined, so falsy, for an empty content.
FirstContent(s) == IF Len(s.content) = 0 THEN <<>> ELSE s.content[1]

\* A hydrator that lays every slide out as CONTENT_LEFT.
hydrateAsContentLeft(s, ids) ==
  LET a == addText(<<>>, ids, s.title, 5, 10, 40, 25, "bold", "left")
      b == StackFrom(a, ids, s.content, 0, BulletPrefix, 5, 30, 10, 40)
  IN addImage(b, ids, s, 50, 10, 45, 80)

\* part_001:33-113
hydrateLayoutToElements(s, ids) ==
  CASE s.layout = "TITLE" ->
         LET a == addText(<<>>, ids, s.title, 10, 30, 80, 40, "bold", "center")
             b == addText(a, ids, s.subtitle, 20, 50, 60, 15, "normal", "center")
         IN IF HasImage(s) THEN addImage(b, ids, s, 0, 0, 100, 100) ELSE b
    [] s.layout = "CONTENT_LEFT" ->
         LET a == addText(<<>>, ids, s.title, 5, 10, 40, 25, "bold", "left")
             b == StackFrom(a, ids, s.content, 0, BulletPrefix, 5, 30, 10, 40)
         IN addImage(b, ids, s, 50, 10, 45, 80)
    [] s.layout = "CONTENT_RIGHT" ->
         LET a == addImage(<<>>, ids, s, 5, 10, 45, 80)
             b == addText(a, ids, s.title, 55, 10, 40, 25, "bold", "left")
         IN StackFrom(b, ids, s.content, 0, BulletPrefix, 55, 30, 10, 40)
    [] s.layout = "BULLETS" ->
         LET a == addText(<<>>, ids, s.title, 10, 10, 80, 30, "bold", "left")
         IN BulletsFrom(a, ids, s.content, 0)
    [] s.layout = "QUOTE" ->
         LET a == addText(<<>>, ids, <<"\"">>, 10, 20, 10, 80, "bold", "left")
             b == addText(a, ids, FirstContent(s), 15, 30, 70, 25, "normal", "center")
         IN IF Falsy(s.subtitle) THEN b
            ELSE addText(b, ids, DashPrefix \o s.subtitle, 60, 60, 30, 12, "bold", "right")
    [] OTHER ->
         LET a == addText(<<>>, ids, s.title, 5, 5, 90, 25, "bold", "left")
             b == IF HasImage(s) THEN addImage(a, ids, s, 5, 20, 90, 40) ELSE a
         IN StackFrom(b, ids, s.content, 0, <<>>, 5, 65, 8, 90)

\* ---- the canvas of a slide: SlideRenderer (part_003) ----

\* The interactive instance is modelled: readOnly is false. An element id
\* is a pair <<run, n>> (see IdSupplies); the empty tuple is null.
Null == <<>>

\* `scale` in halves: 0.5, 1.0 and 2.0.
Scales == {1, 2, 4}

\* Pixel sizes of SlideRenderer's outer element (part_003:235-238).
BoxWidths == {500, 1000, 2000}
BoxHeights == {500}

\* Pointer positions (clientX, clientY) of the mouse events.
Pointers ==
  {[x |-> 0, y |-> 0], [x |-> 100, y |-> 0], [x |-> 100, y |-> 100],
   [x |-> 0, y |-> 1000], [x |-> 2000, y |-> 1000]}

\* part_003:76 with 225-241: containerRef is the inner div, whose only
\* styling is contentStyle. For scale 1 contentStyle is {} (226, 233): the
\* div is a static block as wide as the outer element, and as all of its
\* children are absolutely positioned (131, 241 `absolute inset-0`) its
\* height is 0. For any other scale it is `absolute`, (100 / scale)% of the
\* outer element and transformed by scale(scale), so its bounding rectangle
\* is the outer element's.
ContainerRect ==
  [width |-> box.w, height |-> IF scale = 2 THEN 0 ELSE box.h]

\* v / scale (part_003:78-82) for a whole number v of pixels.
Unscaled(v) == (v * 2) \div scale

\* (a / b) * 100 (part_003:81-82) for whole numbers a and b, b a divisor of
\* a * 100 when it is not 0.
Percent(a, b) ==
  IF b # 0 THEN Num((a * 100) \div b)
  ELSE IF a = 0 THEN NaN
  ELSE IF a > 0 THEN Infinity
  ELSE NegInfinity

\* A conversion that un-scales the pointer delta but divides by the
\* rendered width.
deltaXPercentOfRendered(p) ==
  Percent(Unscaled(p.x - dragStart.x), ContainerRect.width)

\* part_003:78-82 for a mouse event at pointer position p.
deltaXPercent(p) ==
  Percent(Unscaled(p.x - dragStart.x), Unscaled(ContainerRect.width))
deltaYPercent(p) ==
  Percent(Unscaled(p.y - dragStart.y), Unscaled(ContainerRect.height))

Pressed == isDragging \/ isResizing

NoGesture ==
  [kind |-> "none", id |-> Null, x |-> Num(0), y |-> Num(0),
   width |-> Num(0), height |-> Num(0), down |-> [x |-> 0, y |-> 0],
   last |-> [x |-> 0, y |-> 0], moved |-> FALSE, clicked |-> FALSE]

\* What the history keeps of a pointer-down on element el at position p.
GestureOf(kind, el, p) ==
  [kind |-> kind, id |-> el.id, x |-> el.x, y |-> el.y,
   width |-> el.width, height |-> el.height, down |-> p, last |-> p,
   moved |-> FALSE, clicked |-> FALSE]

ElementsOf(s) == {s.elements[j] : j \in 1..Len(s.elements)}

\* onSelectElement?.(id): the parent keeps the selection and passes it back
\* as selectedElementId.
onSelectElement(id) == selectedElementId' = id

\* onUpdate(updatedSlide): the parent replaces the slide it passes as `slide`.
onUpdate(updatedSlide) == slide' = updatedSlide

\* part_003:51-58, registered at 144 on every element. No handler of a
\* pointer-down reads isDragging, isResizing or the button that was pressed:
\* a second button pressed while the first is held gives a pointer-down in
\* the middle of a gesture.
handleElementMouseDown(el, p) ==
  /\ gestures < MaxGestures
  /\ el \in ElementsOf(slide)
  /\ onSelectElement(el.id)
  /\ isDragging' = TRUE
  /\ dragStart' = p
  /\ elementStart' = [x |-> el.x, y |-> el.y, w |-> el.width, h |-> el.height]
  /\ gesture' = GestureOf("drag", el, p)
  /\ gestures' = gestures + 1
  /\ UNCHANGED <<slide, isResizing, scale, box, hydVars, artVars, appVars>>

\* part_003:60-66, registered at 198-199 on the resize handle, which is
\* rendered for the selected element only (195).
handleResizeMouseDown(el, p) ==
  /\ gestures < MaxGestures
  /\ el \in ElementsOf(slide)
  /\ selectedElementId = el.id
  /\ isResizing' = TRUE
  /\ dragStart' = p
  /\ elementStart' = [x |-> el.x, y |-> el.y, w |-> el.width, h |-> el.height]
  /\ gesture' = GestureOf("resize", el, p)
  /\ gestures' = gestures + 1
  /\ UNCHANGED <<slide, selectedElementId, isDragging, scale, box,
                 hydVars, artVars, appVars>>

\* A move handler that adds the displacement since pointer-down to the
\* element's present position instead of its position at pointer-down.
MovedElementFromPresent(el, p) ==
  IF el.id # selectedElementId THEN el
  ELSE IF isDragging
    THEN [el EXCEPT !.x = Plus(el.x, deltaXPercent(p)),
                    !.y = Plus(el.y, deltaYPercent(p))]
  ELSE IF isResizing
    THEN [el EXCEPT !.width = Max5(Plus(el.width, deltaXPercent(p))),
                    !.height = IF IsNumber(el.height)
                                 THEN Max5(Plus(el.height, deltaYPercent(p)))
                                 ELSE el.height]
  ELSE el

\* part_003:84-104: slide.elements.map(...)
MovedElement(el, p) ==
  IF el.id # selectedElementId THEN el
  ELSE IF isDragging
    THEN [el EXCEPT !.x = Plus(elementStart.x, deltaXPercent(p)),
                    !.y = Plus(elementStart.y, deltaYPercent(p))]
  ELSE IF isResizing
    THEN [el EXCEPT !.width = Max5(Plus(elementStart.w, deltaXPercent(p))),
                    !.height = IF IsNumber(el.height)
                                 THEN Max5(Plus(elementStart.h, deltaYPercent(p)))
                                 ELSE el.height]
  ELSE el

\* part_003:72-107: the mousemove listener of the window.
handleMouseMove(p) ==
  /\ Pressed
  /\ selectedElementId # Null
  /\ onUpdate([slide EXCEPT !.elements =
                 [j \in 1..Len(slide.elements) |-> MovedElement(slide.elements[j], p)]])
  /\ gesture' = [gesture EXCEPT !.last = p, !.moved = TRUE]
  /\ UNCHANGED <<selectedElementId, isDragging, isResizing, dragStart,
                 elementStart, scale, box, gestures, hydVars, artVars, appVars>>

\* part_003:109-112: the mouseup listener of the window.
handleMouseUp ==
  /\ Pressed
  /\ isDragging' = FALSE
  /\ isResizing' = FALSE
  /\ UNCHANGED <<slide, selectedElementId, dragStart, elementStart, scale,
                 box, gesture, gestures, hydVars, artVars, appVars>>

\* part_003:237: the outer element's onClick, for a click on the background
\* (a press and a release on the empty canvas area).
handleBackgroundClick ==
  /\ ~Pressed
  /\ selectedElementId # Null
  /\ onSelectElement(Null)
  /\ UNCHANGED <<slide, isDragging, isResizing, dragStart, elementStart,
                 scale, box, gesture, gestures, hydVars, artVars, appVars>>

\* part_003:237 again, for the click that follows the release of a press on
\* an element or on its resize handle: handleElementMouseDown and
\* handleResizeMouseDown stop the mousedown event only (53, 62), and no
\* element has an onClick of its own (141-146, 198-201), so the click event
\* bubbles up to the outer element. It is dispatched after the mouseup, once
\* per press, when the pointer is released over the slide.
handleElementClick ==
  /\ ~Pressed
  /\ gesture.kind \in {"drag", "resize"}
  /\ ~gesture.clicked
  /\ onSelectElement(Null)
  /\ gesture' = [gesture EXCEPT !.clicked = TRUE]
  /\ UNCHANGED <<slide, isDragging, isResizing, dragStart, elementStart,
                 scale, box, gestures, hydVars, artVars, appVars>>

\* A filter that returns the remaining elements in reverse order.
WithoutIdReversed(elements, id) ==
  LET kept == SelectSeq(elements, LAMBDA item : item.id # id)
  IN [j \in 1..Len(kept) |-> kept[Len(kept) + 1 - j]]

\* slide.elements.filter(item => item.id !== id) (part_003:207)
RECURSIVE WithoutId(_, _)
WithoutId(elements, id) ==
  IF elements = <<>> THEN <<>>
  ELSE IF Head(elements).id # id
    THEN <<Head(elements)>> \o WithoutId(Tail(elements), id)
    ELSE WithoutId(Tail(elements), id)

\* part_003:204-214: the delete handle, rendered for the selected element
\* only (195).
handleDelete(el) ==
  /\ el \in ElementsOf(slide)
  /\ selectedElementId = el.id
  /\ onUpdate([slide EXCEPT !.elements = WithoutId(slide.elements, el.id)])
  /\ onSelectElement(Null)
  /\ gesture' = [NoGesture EXCEPT !.kind = "delete", !.id = el.id]
  /\ UNCHANGED <<isDragging, isResizing, dragStart, elementStart, scale, box,
                 gestures, hydVars, artVars, appVars>>

\* ---- the art direction (geminiService.ts:122-164) ----

\* A prompt is the sequence of its characters.
Lowered ==
  "A" :> "a" @@ "B" :> "b" @@ "C" :> "c" @@ "D" :> "d" @@ "E" :> "e" @@ "F" :> "f" @@
  "G" :> "g" @@ "H" :> "h" @@ "I" :> "i" @@ "J" :> "j" @@ "K" :> "k" @@ "L" :> "l" @@
  "M" :> "m" @@ "N" :> "n" @@ "O" :> "o" @@ "P" :> "p" @@ "Q" :> "q" @@ "R" :> "r" @@
  "S" :> "s" @@ "T" :> "t" @@ "U" :> "u" @@ "V" :> "v" @@ "W" :> "w" @@ "X" :> "x" @@
  "Y" :> "y" @@ "Z" :> "z"

\* prompt.toLowerCase() (geminiService.ts:126)
toLowerCase(t) ==
  [j \in 1..Len(t) |-> IF t[j] \in DOMAIN Lowered THEN Lowered[t[j]] ELSE t[j]]

\* String.prototype.includes
includes(t, sub) ==
  \E k \in 0..(Len(t) - Len(sub)) : SubSeq(t, k + 1, k + Len(sub)) = sub

\* A test of the prompt as it was typed, without toLowerCase.
isUiRequestCaseSensitive(prompt) ==
  \/ includes(prompt, <<"u", "i">>)
  \/ includes(prompt, <<"s", "c", "r", "e", "e", "n">>)
  \/ includes(prompt, <<"d", "a", "s", "h", "b", "o", "a", "r", "d">>)
  \/ includes(prompt, <<"i", "n", "t", "e", "r", "f", "a", "c", "e">>)
  \/ includes(prompt, <<"a", "p", "p">>)

\* geminiService.ts:126-127
isUiRequest(prompt) ==
  LET lcPrompt == toLowerCase(prompt)
  IN \/ includes(lcPrompt, <<"u", "i">>)
     \/ includes(lcPrompt, <<"s", "c", "r", "e", "e", "n">>)
     \/ includes(lcPrompt, <<"d", "a", "s", "h", "b", "o", "a", "r", "d">>)
     \/ includes(lcPrompt, <<"i", "n", "t", "e", "r", "f", "a", "c", "e">>)
     \/ includes(lcPrompt, <<"a", "p", "p">>)

\* geminiService.ts:133
UiMockupDirection ==
  "High-fidelity UI Mockup, isometric perspective, floating 3D glass cards, soft diffuse shadows, modern SaaS aesthetic, minimal text (greeking), highly detailed, Unsplash quality."

\* types.ts:48
VisualStyles ==
  {"photorealistic", "minimal-vector", "hand-drawn", "isometric-3d",
   "abstract-geometric"}

\* geminiService.ts:122: style: VisualStyle = 'isometric-3d'
DefaultedStyle(style) == IF style = Undefined THEN "isometric-3d" ELSE style

\* geminiService.ts:129-153
aestheticInstruction(prompt, style) ==
  IF isUiRequest(prompt) THEN UiMockupDirection
  ELSE CASE DefaultedStyle(style) = "minimal-vector" ->
              "Flat vector illustration, Corporate Memphis style, clean lines, solid colors, minimal detail, white background, SVG style aesthetics."
         [] DefaultedStyle(style) = "hand-drawn" ->
              "Architectural sketch style, pencil and watercolor, loose lines, white background, artistic, rough concept art."
         [] DefaultedStyle(style) = "abstract-geometric" ->
              "Bauhaus inspired geometric abstraction, clean shapes, primary colors, minimalist composition, poster design."
         [] DefaultedStyle(style) = "isometric-3d" ->
              "3D Isometric render, claymorphism, soft lighting, pastel colors, cute and clean, Blender 3D style."
         [] OTHER ->
              "Cinematic photo-realism, depth of field, studio lighting, 8k resolution, premium texture."

\* geminiService.ts:155-171: generateSlideImage builds the request for
\* artInput and sends it; the art direction is the part of the request that
\* depends on the style.
generateSlideImage ==
  /\ Len(artCalls) < MaxArtCalls
  /\ artCalls' = Append(artCalls, aestheticInstruction(artInput.prompt, artInput.style))
  /\ UNCHANGED <<artInput, canvasVars, hydVars, appVars>>

\* ---- the specification ----

\* A slide as the Structure Generator describes it, for the hydrator.
SemanticSlide(layout, title, subtitle, content, imageUrl) ==
  [layout |-> layout, title |-> title, subtitle |-> subtitle,
   content |-> content, imageUrl |-> imageUrl]

\* The ids generateId gives to one call of hydrateLayoutToElements
\* (part_001:30: Math.random): one of two runs of distinct values.
IdSupplies ==
  {[j \in 1..(MaxItems + 3) |-> <<run, j>>] : run \in {"a", "b"}}

\* The canvas shows a CONTENT_LEFT slide with a title, one content item and
\* an image: two text elements, whose height is "auto", and an image element.
CanvasSlide ==
  LET s == SemanticSlide("CONTENT_LEFT", <<"T">>, <<>>, <<<<"a">>>>, "img")
      ids == [j \in 1..(MaxItems + 3) |-> <<"a", j>>]
  IN [id |-> 0, elements |-> hydrateLayoutToElements(s, ids)]

CanvasInit ==
  /\ slide = CanvasSlide
  /\ selectedElementId = Null
  /\ isDragging = FALSE
  /\ isResizing = FALSE
  /\ dragStart = [x |-> 0, y |-> 0]
  /\ elementStart = [x |-> Num(0), y |-> Num(0), w |-> Num(0), h |-> Num(0)]
  /\ gesture = NoGesture
  /\ gestures = 0

HydInit ==
  /\ hydInput = SemanticSlide("TITLE", <<>>, <<>>, <<>>, Undefined)
  /\ hydCalls = <<>>

ArtInit ==
  /\ artInput = [prompt |-> <<>>, style |-> "isometric-3d"]
  /\ artCalls = <<>>

AppInit ==
  /\ hasStarted = FALSE
  /\ status = INITIAL_STATUS
  /\ presentation = <<>>
  /\ currentSlideIndex = 0
  /\ mounted = TRUE
  /\ alertOpen = FALSE
  /\ cycles = [c \in Cycles |-> IdleCycle]
  /\ regens = [r \in Regens |-> IdleRegen]

Init ==
  /\ AppInit
  /\ apiKey \in BOOLEAN
  /\ CanvasInit
  /\ scale = 2
  /\ box = [w |-> 1000, h |-> 500]
  /\ HydInit
  /\ ArtInit

Next ==
  \/ handleStart
  \/ \E file \in Files, notes \in NotesTexts : GenerateRejected(file, notes)
  \/ DismissAlert
  \/ \E file \in Files, notes \in NotesTexts : Generate(file, notes)
  \/ \E c \in Cycles, ok \in BOOLEAN : EncodeResolve(c, ok)
  \/ \E c \in Cycles, out \in StructureFailures \cup StructureMismatches :
       StructureResolve(c, out, <<>>)
  \/ \E c \in Cycles, deck \in Decks : StructureResolve(c, "ok", deck)
  \/ \E c \in Cycles, result \in ImageRefs \cup {Pending} : ImageResolve(c, result)
  \/ \E idx \in 0..(MaxSlides - 1) : setCurrentSlideIndex(idx)
  \/ updateSlide
  \/ handleRegenerateImage
  \/ \E r \in Regens, result \in ImageRefs \cup {Pending} : RegenResolve(r, result)

Spec == Init /\ [][Next]_vars

\* ---- the pipeline with a user who edits title and theme ----

\* What the user types as a title, and the theme buttons the user presses
\* (App.tsx:1082 has four; the generated decks carry "tech").
UserTitles == {"user"}
UserThemes == {"elegant"}

\* The user pastes notes, presses Generate (twice at most before the first
\* structure arrives), and edits the title and the theme while the images
\* arrive; a slide's image can be regenerated meanwhile.
EditNext ==
  \/ handleStart
  \/ \E notes \in NotesTexts \ {""} : Generate("none", notes)
  \/ \E c \in Cycles, deck \in Decks : StructureResolve(c, "ok", deck)
  \/ \E c \in Cycles, result \in ImageRefs \cup {Pending} : ImageResolve(c, result)
  \/ handleRegenerateImage
  \/ \E r \in Regens, result \in ImageRefs \cup {Pending} : RegenResolve(r, result)
  \/ \E title \in UserTitles : setTitle(title)
  \/ \E t \in UserThemes : setTheme(t)

EditSpec == Init /\ [][EditNext]_vars

\* ---- the canvas alone ----

CanvasSpecInit ==
  /\ AppInit
  /\ apiKey = TRUE
  /\ CanvasInit
  /\ scale \in Scales
  /\ box \in [w : BoxWidths, h : BoxHeights]
  /\ HydInit
  /\ ArtInit

\* The elements the canvas can show: those of CanvasSlide, wherever a
\* gesture has put them.
ElementIds == {CanvasSlide.elements[j].id : j \in 1..Len(CanvasSlide.elements)}
Shown(id) ==
  IF \E el \in ElementsOf(slide) : el.id = id
    THEN CHOOSE el \in ElementsOf(slide) : el.id = id
    ELSE CanvasSlide.elements[1]

CanvasNext ==
  \/ \E id \in ElementIds, p \in Pointers : handleElementMouseDown(Shown(id), p)
  \/ \E id \in ElementIds, p \in Pointers : handleResizeMouseDown(Shown(id), p)
  \/ \E p \in Pointers : handleMouseMove(p)
  \/ handleMouseUp
  \/ handleBackgroundClick
  \/ handleElementClick
  \/ \E id \in ElementIds : handleDelete(Shown(id))

CanvasSpec == CanvasSpecInit /\ [][CanvasNext]_vars

\* ---- the hydrator alone ----

Layouts ==
  {"TITLE", "CONTENT_LEFT", "CONTENT_RIGHT", "BULLETS", "QUOTE", "DATA",
   "PROCESS", "OTHER"}

RECURSIVE Contents(_)
Contents(n) ==
  IF n = 0 THEN {<<>>}
  ELSE Contents(n - 1) \cup
       {Append(c, t) : c \in {d \in Contents(n - 1) : Len(d) = n - 1},
                       t \in {<<>>, <<"a">>, <<"b">>}}

HydSlides ==
  {SemanticSlide(layout, title, subtitle, content, imageUrl) :
     layout \in Layouts, title \in {<<>>, <<"T">>}, subtitle \in {<<>>, <<"S">>},
     content \in Contents(MaxItems), imageUrl \in {Undefined, Pending, "img"}}

HydSpecInit ==
  /\ AppInit
  /\ apiKey = TRUE
  /\ CanvasInit
  /\ scale = 2
  /\ box = [w |-> 1000, h |-> 500]
  /\ hydInput \in HydSlides
  /\ hydCalls = <<>>
  /\ ArtInit

\* A call hydrateLayoutToElements(hydInput): the function reads its argument
\* and builds a new array (part_001:34, 112).
Hydrate(ids) ==
  /\ Len(hydCalls) < MaxHydrations
  /\ hydCalls' = Append(hydCalls, hydrateLayoutToElements(hydInput, ids))
  /\ UNCHANGED <<hydInput, canvasVars, artVars, appVars>>

HydNext == \E ids \in IdSupplies : Hydrate(ids)

HydSpec == HydSpecInit /\ [][HydNext]_vars

\* ---- the art direction alone ----

\* Prompts with and without the words the test looks for, in either case,
\* as words of their own and inside other words.
ArtPrompts ==
  {<<>>,
   <<"a", " ", "c", "h", "a", "r", "t">>,
   <<"A", " ", "U", "I">>,
   <<"D", "a", "s", "h", "b", "o", "a", "r", "d">>,
   <<"i", "n", "t", "e", "r", "f", "a", "c", "e">>,
   <<"l", "o", "c", "k", " ", "s", "c", "r", "e", "e", "n">>,
   <<"a", "n", " ", "a", "p", "p">>,
   <<"h", "a", "p", "p", "y", " ", "t", "e", "a", "m">>,
   <<"b", "u", "i", "l", "d">>,
   <<"I", "N", "T", "E", "R", "F", "A", "C", "E", "S">>}

\* The styles of types.ts:48, a value outside the type, and no style given.
ArtStyles == VisualStyles \cup {"other", Undefined}

ArtSpecInit ==
  /\ AppInit
  /\ apiKey = TRUE
  /\ CanvasInit
  /\ scale = 2
  /\ box = [w |-> 1000, h |-> 500]
  /\ HydInit
  /\ artInput \in [prompt : ArtPrompts, style : ArtStyles]
  /\ artCalls = <<>>

ArtNext == generateSlideImage

ArtSpec == ArtSpecInit /\ [][ArtNext]_vars

\* ---- reading a call's history ----

HasEvent(log, e) == \E k \in 1..Len(log) : log[k].e = e

\* The slide indices of the events `e` of a log, in order.
RECURSIVE IndicesOf(_, _)
IndicesOf(log, e) ==
  IF log = <<>> THEN <<>>
  ELSE IF Head(log).e = e THEN <<Head(log).i>> \o IndicesOf(Tail(log), e)
  ELSE IndicesOf(Tail(log), e)

\* The indices of the slides with a non-empty visualPrompt, in slide order.
RECURSIVE PromptIndicesFrom(_, _)
PromptIndicesFrom(slides, from) ==
  IF from >= Len(slides) THEN <<>>
  ELSE IF slides[from + 1].visualPrompt # ""
    THEN <<from>> \o PromptIndicesFrom(slides, from + 1)
    ELSE PromptIndicesFrom(slides, from + 1)

PromptIndices(slides) == PromptIndicesFrom(slides, 0)

IsPrefix(s, t) == Len(s) <= Len(t) /\ \A k \in 1..Len(s) : s[k] = t[k]

\* The steps of one call of handleGenerate.
CycleStep(c) == cycles'[c] # cycles[c]
CycleStarts(c) == cycles[c].pc = "idle" /\ cycles'[c].pc # "idle"
StructureFails(c) ==
  /\ cycles[c].pc = "structure"
  /\ cycles'[c].pc = "done"
  /\ cycles'[c].log[Len(cycles'[c].log)].e = "structFail"
Publishes(c) ==
  /\ ~HasEvent(cycles[c].log, "publish")
  /\ HasEvent(cycles'[c].log, "publish")
ImageStep(c) == cycles[c].pc = "image" /\ CycleStep(c)
Completes(c) == cycles[c].pc # "done" /\ cycles'[c].pc = "done" /\ status'.stage = "COMPLETE"

\* The result of the image request a step of the loop has just received.
ResultOf(c) == cycles'[c].updatedSlides[cycles[c].i + 1].imageUrl

\* ---- C1 ----
\* C1: a call of handleGenerate whose Structure Generator call fails (the
\* collaborator throws, sends no text, or sends text JSON.parse rejects) sets
\* the stage to ERROR and never writes the Store: no step of a call that has
\* not got a parsed response changes `presentation`, so the Store is what it
\* was before the call started.
C1_FailedStructureKeepsStore ==
  [][\A c \in Cycles :
       /\ (CycleStep(c) /\ ~HasEvent(cycles'[c].log, "structOk"))
            => presentation' = presentation
       /\ StructureFails(c)
            => /\ status'.stage = "ERROR"
               /\ ~HasEvent(cycles'[c].log, "publish")]_vars

\* A call has ended on a failed structure call: ERROR, Store as at its start.
C1_Witness ==
  \E c \in Cycles :
    /\ cycles[c].pc = "done"
    /\ HasEvent(cycles[c].log, "structFail")
    /\ status.stage = "ERROR"
    /\ presentation = cycles[c].storeAtStart

\* ---- C2 ----
\* C2: whatever image requests fail, no step of the image loop turns the
\* stage into ERROR, the loop goes on to the later slides (when the call ends
\* it has asked for every slide with a visualPrompt and the stage is
\* COMPLETE), and at that moment every slide whose own request returned an
\* image carries that image in the Store.
C2_ImageFailuresAreNotFatal ==
  [][\A c \in Cycles :
       ImageStep(c) =>
         /\ status'.stage = "ERROR" => status.stage = "ERROR"
         /\ cycles'[c].pc \in {"image", "done"}
         /\ cycles'[c].pc = "image" => cycles'[c].i > cycles[c].i
         /\ cycles'[c].pc = "done" =>
              /\ status'.stage = "COMPLETE"
              /\ IndicesOf(cycles'[c].log, "imgRes") = PromptIndices(cycles'[c].updatedSlides)
              /\ presentation' # <<>>
              /\ \A k \in 1..Len(cycles'[c].log) :
                   LET ev == cycles'[c].log[k]
                   IN (ev.e = "imgRes" /\ ev.r \in ImageRefs)
                        => presentation'[1].slides[ev.i + 1].imageUrl = ev.r]_vars

\* A call has reached COMPLETE although the request for its first slide
\* failed; the request for the second slide was made and its image is in the
\* Store.
C2_Witness ==
  \E c \in Cycles :
    /\ cycles[c].pc = "done"
    /\ status.stage = "COMPLETE"
    /\ \E k \in 1..Len(cycles[c].log) :
         cycles[c].log[k] = Event("imgRes", 0, Pending)
    /\ \E k \in 1..Len(cycles[c].log) :
         /\ cycles[c].log[k].e = "imgRes"
         /\ cycles[c].log[k].i = 1
         /\ cycles[c].log[k].r \in ImageRefs
         /\ presentation # <<>>
         /\ presentation[1].slides[2].imageUrl = cycles[c].log[k].r

\* ---- C3 ----
\* C3 (as claimed): every republish of the image loop differs from the
\* latest Store value only in the imageUrl of the slide at index i, so an
\* edit a user made through updateSlide while the loop runs is kept.
C3_LoopKeepsUserEdits ==
  [][\A c \in Cycles :
       ImageStep(c) =>
         /\ presentation # <<>>
         /\ cycles[c].i < Len(presentation[1].slides)
         /\ presentation' = WithImage(presentation, cycles[c].i, ResultOf(c))]_vars

\* ---- C4 ----
\* C4 (as claimed): when the regeneration of slide s completes, the Store
\* differs from its value just before only in the imageUrl of slide s.
C4_RegenTouchesOneImage ==
  [][\A r \in Regens :
       (regens[r].pc = "await" /\ regens'[r].pc = "idle") =>
         /\ presentation # <<>>
         /\ regens[r].index < Len(presentation[1].slides)
         /\ presentation' # <<>>
         /\ presentation' = WithImage(presentation, regens[r].index,
                                      presentation'[1].slides[regens[r].index + 1].imageUrl)]_vars

\* ---- C5 ----
\* C5 (as claimed): when the image request of the loop for a slide fails,
\* that slide's imageUrl is left absent; the loop never sets it to the
\* empty-string pending sentinel.
C5_FailedImageLeftAbsent ==
  [][\A c \in Cycles :
       (ImageStep(c) /\ ResultOf(c) \notin ImageRefs /\ presentation' # <<>>) =>
         presentation'[1].slides[cycles[c].i + 1].imageUrl = Undefined]_vars

\* ---- C6 ----
\* The number of events `e` among the first k events of a log.
CountBefore(log, k, e) == Cardinality({m \in 1..(k - 1) : log[m].e = e})

\* C6: within one call of handleGenerate the image requests made so far are,
\* in order, the first slides with a non-empty visualPrompt (all of them
\* once the loop has ended, and none for a slide without a visualPrompt);
\* a request is made only when every earlier request of the call has
\* resolved, so the call has at most one image request in flight.
C6_RequestsInSlideOrder ==
  \A c \in Cycles :
    LET log == cycles[c].log
        asked == IndicesOf(log, "imgReq")
        answered == IndicesOf(log, "imgRes")
        wanted == PromptIndices(cycles[c].updatedSlides)
    IN /\ IsPrefix(asked, wanted)
       /\ (cycles[c].pc = "done" /\ HasEvent(log, "publish") /\ log[Len(log)].r # "noslides")
            => asked = wanted
       /\ \A k \in 1..Len(log) :
            log[k].e = "imgReq" =>
              CountBefore(log, k, "imgReq") = CountBefore(log, k, "imgRes")
       /\ IsPrefix(answered, asked)
       /\ Len(asked) - Len(answered) = IF cycles[c].pc = "image" THEN 1 ELSE 0

\* A call has ended after asking for slide 0 and then for slide 1.
C6_Witness ==
  \E c \in Cycles :
    /\ cycles[c].pc = "done"
    /\ IndicesOf(cycles[c].log, "imgReq") = <<0, 1>>
    /\ IndicesOf(cycles[c].log, "imgRes") = <<0, 1>>

\* ---- C7 ----
\* C7 (as claimed): a call of handleGenerate starts a cycle only when the
\* stage is IDLE, COMPLETE or ERROR, so at most one cycle is in progress.
C7_StartsOnlyWhenSettled ==
  [][\A c \in Cycles :
       CycleStarts(c) => status.stage \in {"IDLE", "COMPLETE", "ERROR"}]_vars

\* ---- C8 ----
\* C8: a call of handleGenerate writes the Store only once its Structure
\* Generator call has returned a parsed response; its first write is the
\* presentation built from that response, with every slide of the response
\* and no imageUrl on any of them, and the call asks for no image before it.
C8_FirstPublishIsWholeDeck ==
  [][\A c \in Cycles :
       /\ (CycleStep(c) /\ presentation' # presentation)
            => HasEvent(cycles'[c].log, "structOk")
       /\ \A k \in 1..Len(cycles'[c].log) :
            cycles'[c].log[k].e = "imgReq"
              => CountBefore(cycles'[c].log, k, "publish") = 1
       /\ (Publishes(c) /\ \E k \in 1..Len(cycles'[c].log) :
                             cycles'[c].log[k] = Event("publish", Absent, "ok"))
            => /\ presentation' # <<>>
               /\ presentation'[1].slidesDefined
               /\ presentation'[1].slides =
                    [j \in 1..Len(cycles'[c].updatedSlides) |->
                       [cycles'[c].updatedSlides[j] EXCEPT !.imageUrl = Undefined]]]_vars

\* The Store holds a two-slide deck just published, no slide with an image,
\* while the call's first image request is in flight.
C8_Witness ==
  \E c \in Cycles :
    /\ cycles[c].pc = "image"
    /\ IndicesOf(cycles[c].log, "imgRes") = <<>>
    /\ presentation # <<>>
    /\ Len(presentation[1].slides) = 2
    /\ presentation[1].slides = cycles[c].updatedSlides
    /\ \A j \in 1..2 : presentation[1].slides[j].imageUrl = Undefined

\* ---- C9 ----
\* C9 (as claimed): a response that parses as JSON but is not the expected
\* structure is fatal, and no presentation built from it is ever published
\* to the Store.
C9_MismatchNeverPublished ==
  [][\A c \in Cycles :
       (/\ cycles[c].pc = "structure"
        /\ \E k \in 1..Len(cycles'[c].log) :
             /\ cycles'[c].log[k].e = "structOk"
             /\ cycles'[c].log[k].r \in StructureMismatches)
         => /\ status'.stage = "ERROR"
            /\ presentation' = presentation
            /\ ~HasEvent(cycles'[c].log, "publish")]_vars

\* ---- C10 ----
\* C10: Generate pressed with no document and empty notes is rejected: the
\* step that raises the alert leaves the status, the Store and every
\* request as they were, and no call that got past the check (and so goes on
\* to a collaborator) was started with both inputs empty.
C10_EmptyInputRejected ==
  /\ [][(alertOpen' /\ ~alertOpen)
          => UNCHANGED <<status, presentation, cycles, regens>>]_vars
  /\ [](\A c \in Cycles :
          cycles[c].pc \in {"encoding", "structure"}
            => ~(cycles[c].file = "none" /\ cycles[c].notes = ""))

\* The alert is on screen and nothing has changed since the application
\* started.
C10_Witness ==
  /\ alertOpen
  /\ status = INITIAL_STATUS
  /\ presentation = <<>>
  /\ \A c \in Cycles : cycles[c] = IdleCycle

\* ---- C11 ----
\* Every collaborator call eventually resolves and its continuation is then
\* run: the event loop serves its task queue in order, so a continuation that
\* is ready again and again (an alert() may hold the thread for a while) is
\* not passed over for ever. An alert on screen is eventually dismissed.
Fairness ==
  /\ \A c \in Cycles : SF_vars(\E ok \in BOOLEAN : EncodeResolve(c, ok))
  /\ \A c \in Cycles :
       SF_vars(\/ \E out \in StructureFailures \cup StructureMismatches :
                    StructureResolve(c, out, <<>>)
               \/ \E deck \in Decks : StructureResolve(c, "ok", deck))
  /\ \A c \in Cycles :
       SF_vars(\E result \in ImageRefs \cup {Pending} : ImageResolve(c, result))
  /\ \A r \in Regens :
       SF_vars(\E result \in ImageRefs \cup {Pending} : RegenResolve(r, result))
  /\ WF_vars(DismissAlert)

LiveSpec == Init /\ [][Next]_vars /\ Fairness

\* The call has passed the check of App.tsx:592 and has not reached its last
\* setStatus.
InProgress(c) == cycles[c].pc \in {"encoding", "structure", "image"}

AtLeast5(a) == a.k = "Infinity" \/ (a.k = "number" /\ a.v >= 5)

\* The element a gesture acts on.
Target == {el \in ElementsOf(slide) : el.id = gesture.id}

\* C12 (as claimed): after any pointer-move of a resize, whatever the pointer
\* delta, the resized element's width is at least 5, and its height is a
\* number that is at least 5 or is still "auto" when it was "auto" at
\* pointer-down.
C12_ResizeKeepsMinimum ==
  (gesture.kind = "resize" /\ gesture.moved) =>
    \A el \in Target :
      /\ AtLeast5(el.width)
      /\ IF gesture.height = Auto THEN el.height = Auto ELSE AtLeast5(el.height)

\* ---- C13 ----
\* The displacement of the pointer since pointer-down, as percentages of the
\* container.
DragDeltaX ==
  Percent(Unscaled(gesture.last.x - gesture.down.x), Unscaled(ContainerRect.width))
DragDeltaY ==
  Percent(Unscaled(gesture.last.y - gesture.down.y), Unscaled(ContainerRect.height))

Dragged100 ==
  /\ gesture.kind = "drag"
  /\ gesture.moved
  /\ gesture.last.x - gesture.down.x = 100

\* C14 (as claimed): a pointer delta of 100 screen pixels on a container
\* whose logical (unscaled) width is 1000 moves the element by 10 percent,
\* for every scale.
C14_LogicalWidthGivesTen ==
  (Dragged100 /\ Unscaled(ContainerRect.width) = 1000) =>
    \A el \in Target : el.x = Plus(gesture.x, Num(10))

\* C14 (amended): a pointer delta of 100 screen pixels moves the element by
\* 10 percent, for every scale, on a container whose rendered width (its
\* bounding rectangle, which is scale times the logical width) is 1000; on a
\* container whose logical width is 1000 it moves it by 10 / scale percent:
\* 20, 10 and 5 for the scales 0.5, 1 and 2.
C14_RenderedWidthGivesTen ==
  /\ (Dragged100 /\ ContainerRect.width = 1000) =>
       \A el \in Target : el.x = Plus(gesture.x, Num(10))
  /\ (Dragged100 /\ Unscaled(ContainerRect.width) = 1000) =>
       \A el \in Target : el.x = Plus(gesture.x, Num(20 \div scale))

\* At scale 0.5 a drag of 100 screen pixels on a container of logical width
\* 1000 has moved the element by 20 percent.
C14_Witness ==
  /\ Dragged100
  /\ scale = 1
  /\ Unscaled(ContainerRect.width) = 1000
  /\ \E el \in Target : el.x = Plus(gesture.x, Num(20))

\* ---- C15 ----
\* C15 (as claimed): two calls of hydrateLayoutToElements with the same slide
\* return equal element sequences, ids included, and no call changes the
\* slide it is given.
C15_HydrationDeterministic ==
  /\ [](\A i, j \in 1..Len(hydCalls) : hydCalls[i] = hydCalls[j])
  /\ [][hydInput' = hydInput]_vars

\* ---- C16 ----
QuoteCase ==
  /\ hydInput.layout = "QUOTE"
  /\ Len(hydInput.content) > 0
  /\ ~Falsy(hydInput.content[1])
  /\ ~Falsy(hydInput.subtitle)

\* C16: for a QUOTE slide with a non-empty first content item and a
\* non-empty subtitle every call yields exactly three elements, in order the
\* quote mark, a text whose content is content[0], and a text whose content
\* is the dash prefix followed by the subtitle; the title, the imageUrl and
\* the content items from index 1 on yield nothing.
C16_QuoteYieldsThree ==
  QuoteCase =>
    \A n \in 1..Len(hydCalls) :
      LET r == hydCalls[n]
      IN /\ Len(r) = 3
         /\ \A j \in 1..3 : r[j].type = "text"
         /\ r[1].content = <<"\"">>
         /\ r[2].content = hydInput.content[1]
         /\ r[3].content = DashPrefix \o hydInput.subtitle

\* A QUOTE slide with a title, an image and two different content items has
\* been hydrated.
C16_Witness ==
  /\ QuoteCase
  /\ Len(hydCalls) > 0
  /\ Len(hydInput.content) > 1
  /\ hydInput.content[2] # hydInput.content[1]
  /\ ~Falsy(hydInput.content[2])
  /\ ~Falsy(hydInput.title)
  /\ HasImage(hydInput)
  /\ Len(hydCalls[1]) = 3

\* ---- C17 ----
\* Column and row of the BULLETS item at index i.
ColumnOf(i) == IF i % 2 = 0 THEN 10 ELSE 55
RowOf(i) == 30 + 15 * (i \div 2)

\* The number of title elements of a result: 1 unless the title is empty.
TitleBlock == IF Falsy(hydInput.title) THEN 0 ELSE 1

\* The indices of the non-empty items of a content, in order.
RECURSIVE NonEmptyFrom(_, _)
NonEmptyFrom(content, i) ==
  IF i >= Len(content) THEN <<>>
  ELSE IF Falsy(content[i + 1]) THEN NonEmptyFrom(content, i + 1)
  ELSE <<i>> \o NonEmptyFrom(content, i + 1)

\* C17 (as claimed): for a BULLETS slide every content item yields exactly
\* one element after the title block, the item at index i at x = 10 when i is
\* even and x = 55 when i is odd, and at y = 30 + 15 * floor(i / 2).
C17_EveryItemPlaced ==
  hydInput.layout = "BULLETS" =>
    \A n \in 1..Len(hydCalls) :
      LET r == hydCalls[n]
      IN /\ Len(r) = TitleBlock + Len(hydInput.content)
         /\ \A i \in 0..(Len(hydInput.content) - 1) :
              /\ r[TitleBlock + i + 1].content = hydInput.content[i + 1]
              /\ r[TitleBlock + i + 1].x = Num(ColumnOf(i))
              /\ r[TitleBlock + i + 1].y = Num(RowOf(i))

\* C17 (amended): for a BULLETS slide every non-empty content item yields
\* exactly one element after the title block, in item order, and an empty
\* item yields none; the element of the item at index i (its index among all
\* items, empty ones counted) is at x = 10 when i is even and x = 55 when i
\* is odd, and at y = 30 + 15 * floor(i / 2).
C17_NonEmptyItemsPlaced ==
  hydInput.layout = "BULLETS" =>
    \A n \in 1..Len(hydCalls) :
      LET r == hydCalls[n]
          shown == NonEmptyFrom(hydInput.content, 0)
      IN /\ Len(r) = TitleBlock + Len(shown)
         /\ \A k \in 1..Len(shown) :
              /\ r[TitleBlock + k].content = hydInput.content[shown[k] + 1]
              /\ r[TitleBlock + k].x = Num(ColumnOf(shown[k]))
              /\ r[TitleBlock + k].y = Num(RowOf(shown[k]))

\* A BULLETS slide with four items, the second one empty, has been hydrated:
\* the title, then the items 0, 2 and 3, the last at column B of the second
\* row.
C17_Witness ==
  /\ hydInput.layout = "BULLETS"
  /\ ~Falsy(hydInput.title)
  /\ Len(hydInput.content) = 4
  /\ NonEmptyFrom(hydInput.content, 0) = <<0, 2, 3>>
  /\ Len(hydCalls) > 0
  /\ Len(hydCalls[1]) = 4
  /\ hydCalls[1][4].x = Num(55)
  /\ hydCalls[1][4].y = Num(45)

\* ---- C18 ----
\* The slide's elements are those of `before` with the one at position j
\* taken out.
RemovedAt(before, j) ==
  /\ Len(slide'.elements) = Len(before) - 1
  /\ \A k \in 1..(j - 1) : slide'.elements[k] = before[k]
  /\ \A k \in (j + 1)..Len(before) : slide'.elements[k - 1] = before[k]

\* C18: a deletion removes exactly the deleted element from slide.elements
\* (the others stay, unchanged and in the same order) and leaves the
\* selection empty; at no time is the selected id the id of an element that
\* is no longer on the slide.
C18_DeleteRemovesExactlyOne ==
  /\ [](selectedElementId # Null =>
          \E el \in ElementsOf(slide) : el.id = selectedElementId)
  /\ [][\A el \in ElementsOf(slide) :
          handleDelete(el) =>
            /\ selectedElementId' = Null
            /\ \A item \in ElementsOf(slide') : item.id # el.id
            /\ \E j \in 1..Len(slide.elements) :
                 /\ slide.elements[j] = el
                 /\ RemovedAt(slide.elements, j)]_vars

\* The middle one of three elements has just been deleted, after one of the
\* others was moved: the first and the last remain, in that order.
C18_Witness ==
  /\ gesture.kind = "delete"
  /\ gesture.id = CanvasSlide.elements[2].id
  /\ selectedElementId = Null
  /\ Len(slide.elements) = 2
  /\ slide.elements[1].id = CanvasSlide.elements[1].id
  /\ slide.elements[2].id = CanvasSlide.elements[3].id
  /\ slide.elements # <<CanvasSlide.elements[1], CanvasSlide.elements[3]>>

\* ---- C19 ----
\* The imageUrl the Store holds for the slide at index idx.
StoredImage(pres, idx) == pres[1].slides[idx + 1].imageUrl

\* C19: a regeneration sets the imageUrl of its slide to the pending
\* sentinel in the step that issues its one request, so before the request
\* can resolve; when the request fails the slide's imageUrl is the pending
\* sentinel, the regeneration has ended without another request, and the
\* status is the one it found.
C19_RegenFailureStaysPending ==
  [][/\ handleRegenerateImage =>
          /\ \E idx \in 0..(Len(presentation[1].slides) - 1) :
               /\ presentation[1].slides[idx + 1].id =
                    presentation[1].slides[currentSlideIndex + 1].id
               /\ StoredImage(presentation', idx) = Pending
               /\ \A r \in Regens :
                    regens'[r] # regens[r] =>
                      regens'[r].pc = "await" /\ regens'[r].index = idx
          /\ status' = status
     /\ \A r \in Regens :
          RegenResolve(r, Pending) =>
            /\ StoredImage(presentation', regens[r].index) = Pending
            /\ regens'[r].pc = "idle"
            /\ cycles' = cycles
            /\ status' = status]_vars

\* A regeneration has failed: the only call of handleGenerate has ended with
\* every image of its deck in place, no regeneration is in flight, and the
\* Store shows a slide with a visualPrompt whose image is pending.
C19_Witness ==
  /\ apiKey
  /\ cycles[1].pc = "done"
  /\ \A c \in Cycles \ {1} : cycles[c].pc = "idle"
  /\ Len(cycles[1].updatedSlides) > 0
  /\ \A j \in 1..Len(cycles[1].updatedSlides) :
       /\ cycles[1].updatedSlides[j].visualPrompt # ""
       /\ cycles[1].updatedSlides[j].imageUrl \in ImageRefs
  /\ \A r \in Regens : regens[r].pc = "idle"
  /\ status.stage = "COMPLETE"
  /\ presentation # <<>>
  /\ \E j \in 1..Len(presentation[1].slides) :
       /\ presentation[1].slides[j].visualPrompt # ""
       /\ presentation[1].slides[j].imageUrl = Pending

\* ---- C20 ----
\* The number of image requests of a call that have returned.
ImagesDone(log) == Len(IndicesOf(log, "imgRes"))

\* C20 (as claimed): progress is 10 in ANALYZING_DOC and 30 in
\* GENERATING_STRUCTURE, and every step of a call that publishes its deck or
\* receives an image leaves progress = 40 + floor(i * 60 / N), where N is the
\* number of slides of the deck with a visualPrompt and i the number of
\* those whose request has returned.
C20_ProgressCountsCompletedSlides ==
  /\ [](status.stage = "ANALYZING_DOC" => status.progress = 10)
  /\ [](status.stage = "GENERATING_STRUCTURE" => status.progress = 30)
  /\ [][\A c \in Cycles :
          LET N == Len(PromptIndices(cycles'[c].updatedSlides))
          IN (/\ CycleStep(c)
              /\ cycles'[c].pc \in {"image", "done"}
              /\ HasEvent(cycles'[c].log, "publish")
              /\ status'.stage \in {"GENERATING_IMAGES", "COMPLETE"}
              /\ N > 0)
               => status'.progress = 40 + (ImagesDone(cycles'[c].log) * 60) \div N]_vars

\* ---- C21 ----
\* The stage changes the claim allows.
AllowedChange(from, to) ==
  \/ from \in {"IDLE", "COMPLETE", "ERROR"} /\ to = "ANALYZING_DOC"
  \/ from = "ANALYZING_DOC" /\ to = "GENERATING_STRUCTURE"
  \/ from = "GENERATING_STRUCTURE" /\ to = "GENERATING_IMAGES"
  \/ from = "GENERATING_IMAGES" /\ to = "COMPLETE"
  \/ /\ from \in {"ANALYZING_DOC", "GENERATING_STRUCTURE", "GENERATING_IMAGES"}
     /\ to = "ERROR"

\* The stages a step of handleGenerate writes between two renders, through
\* which the stage passes without being shown: ANALYZING_DOC (App.tsx:598)
\* and GENERATING_STRUCTURE (608) when no file is read, GENERATING_IMAGES
\* (624) when the loop ends at once.
PassesThrough(from, path, to) ==
  /\ AllowedChange(from, path[1])
  /\ \A k \in 1..(Len(path) - 1) : AllowedChange(path[k], path[k + 1])
  /\ AllowedChange(path[Len(path)], to)

\* C21 (as claimed): every change of the stage is one of the listed changes,
\* counting the stages a handler writes one after the other without
\* yielding: no stage is skipped and none is gone back to.
C21_StageChangesFollowPipeline ==
  [][status'.stage # status.stage =>
       \/ AllowedChange(status.stage, status'.stage)
       \/ /\ \E notes \in NotesTexts : Generate("none", notes)
          /\ \/ PassesThrough(status.stage, <<"ANALYZING_DOC">>, status'.stage)
             \/ /\ ~apiKey
                /\ PassesThrough(status.stage,
                                 <<"ANALYZING_DOC", "GENERATING_STRUCTURE">>,
                                 status'.stage)
       \/ /\ \E c \in Cycles : EncodeResolve(c, TRUE)
          /\ ~apiKey
          /\ PassesThrough(status.stage, <<"GENERATING_STRUCTURE">>, status'.stage)
       \/ /\ \E c \in Cycles, deck \in Decks : StructureResolve(c, "ok", deck)
          /\ PassesThrough(status.stage, <<"GENERATING_IMAGES">>, status'.stage)]_vars

\* ---- C22 ----
\* The element `after` is `before` but for its x and y, or but for its
\* width and height.
OnlyPosition(before, after) ==
  after = [before EXCEPT !.x = after.x, !.y = after.y]
OnlySize(before, after) ==
  after = [before EXCEPT !.width = after.width, !.height = after.height]

\* C22 (as claimed): a pointer-move changes no element but the selected one
\* and nothing else of the slide, neither the number nor the order of the
\* elements; while dragging it changes only x and y of the selected element,
\* while resizing only its width and height; and while no element is
\* selected no pointer-move changes the slide.
C22_MoveChangesOnlySelected ==
  [][/\ \A p \in Pointers :
          handleMouseMove(p) =>
            /\ slide' = [slide EXCEPT !.elements = slide'.elements]
            /\ Len(slide'.elements) = Len(slide.elements)
            /\ \A j \in 1..Len(slide.elements) :
                 LET before == slide.elements[j]
                     after == slide'.elements[j]
                 IN /\ before.id # selectedElementId => after = before
                    /\ isDragging => OnlyPosition(before, after)
                    /\ isResizing => OnlySize(before, after)
     /\ (selectedElementId = Null /\ Pressed) => slide' = slide]_vars

\* ---- C23 ----
\* C23 (as claimed): the engine is never dragging and resizing at once,
\* whatever pointer-downs, pointer-moves and pointer-ups it receives, and
\* every pointer-up leaves it idle.
C23_OneInteractionState ==
  /\ [](~(isDragging /\ isResizing))
  /\ [][handleMouseUp => (~isDragging' /\ ~isResizing')]_vars

\* ---- C24 ----
\* C24 (as claimed): the selection changes in three ways only: a
\* pointer-down on an element selects it, a press on the empty canvas area
\* empties the selection, and deleting the selected element empties it; no
\* pointer-move and no pointer-up changes it, and nothing else does, so the
\* element of a gesture is still selected when the gesture has ended.
C24_SelectionChangesThreeWays ==
  [][selectedElementId' # selectedElementId =>
       \/ \E el \in ElementsOf(slide), p \in Pointers :
            handleElementMouseDown(el, p) /\ selectedElementId' = el.id
       \/ handleBackgroundClick /\ selectedElementId' = Null
       \/ \E el \in ElementsOf(slide) :
            handleDelete(el) /\ selectedElementId' = Null]_vars

\* ---- C25 ----
\* The layout that is the counterpart of a content layout.
Counterpart(layout) ==
  IF layout = "CONTENT_LEFT" THEN "CONTENT_RIGHT" ELSE "CONTENT_LEFT"

\* Element f is element e reflected: same type, content, y, width and
\* height, at x = 100 - e.x - e.width.
Reflects(e, f) ==
  /\ f.type = e.type
  /\ f.content = e.content
  /\ f.y = e.y
  /\ f.width = e.width
  /\ f.height = e.height
  /\ f.x = Num(100 - e.x.v - e.width.v)

MirrorImages(r, m) ==
  /\ Len(r) = Len(m)
  /\ \A j \in 1..Len(r) : \E k \in 1..Len(m) : Reflects(r[j], m[k])
  /\ \A k \in 1..Len(m) : \E j \in 1..Len(r) : Reflects(m[k], r[j])

\* C25: the elements of a CONTENT_LEFT or CONTENT_RIGHT slide are the mirror
\* images of the elements the same slide gets under the other of the two
\* layouts: as many elements, and each with a counterpart of the same type,
\* content, y, width and height at x = 100 - x - width.
C25_ContentLayoutsMirror ==
  hydInput.layout \in {"CONTENT_LEFT", "CONTENT_RIGHT"} =>
    \A n \in 1..Len(hydCalls), ids \in IdSupplies :
      MirrorImages(hydCalls[n],
                   hydrateLayoutToElements(
                     [hydInput EXCEPT !.layout = Counterpart(hydInput.layout)], ids))

\* A CONTENT_RIGHT slide with a title, an image and two content items has
\* been hydrated: image, title and two bullets, the title at x = 55.
C25_Witness ==
  /\ hydInput.layout = "CONTENT_RIGHT"
  /\ ~Falsy(hydInput.title)
  /\ HasImage(hydInput)
  /\ Len(hydInput.content) = 2
  /\ Len(hydCalls) > 0
  /\ Len(hydCalls[1]) = 4
  /\ hydCalls[1][2].x = Num(55)
  /\ hydCalls[1][1].type = "image"

\* ---- C26 ----
\* DATA, PROCESS and a value outside the enumeration.
GenericLayouts == {"DATA", "PROCESS", "OTHER"}

\* The number of image elements of the generic template.
ImageBlock == IF HasImage(hydInput) THEN 1 ELSE 0

\* The head of a generic result: the title block when there is a title, then
\* the image block when there is an image.
GenericHead(r) ==
  /\ TitleBlock = 1 =>
       /\ r[1].type = "text"
       /\ r[1].content = hydInput.title
       /\ r[1].x = Num(5) /\ r[1].y = Num(5) /\ r[1].width = Num(90)
  /\ ImageBlock = 1 =>
       /\ r[TitleBlock + 1].type = "image"
       /\ r[TitleBlock + 1].x = Num(5) /\ r[TitleBlock + 1].y = Num(20)
       /\ r[TitleBlock + 1].width = Num(90) /\ r[TitleBlock + 1].height = Num(40)

\* Element e is the text of the content item at index i of the generic
\* template.
GenericItem(e, i) ==
  /\ e.type = "text"
  /\ e.content = hydInput.content[i + 1]
  /\ e.x = Num(5)
  /\ e.y = Num(65 + 8 * i)
  /\ e.width = Num(90)

\* Every call has returned a sequence of elements.
ReturnsNormally ==
  \A n \in 1..Len(hydCalls) :
    /\ Len(hydCalls[n]) <= MaxItems + 3
    /\ \A j \in 1..Len(hydCalls[n]) : hydCalls[n][j].type \in {"text", "image"}

ContainsOneOf(prompt, words) ==
  \E w \in words : includes(toLowerCase(prompt), w)

ClaimedKeywords == {<<"u", "i">>, <<"d", "a", "s", "h", "b", "o", "a", "r", "d">>, <<"i", "n", "t", "e", "r", "f", "a", "c", "e">>}
UiKeywords ==
  {<<"u", "i">>, <<"s", "c", "r", "e", "e", "n">>, <<"d", "a", "s", "h", "b", "o", "a", "r", "d">>, <<"i", "n", "t", "e", "r", "f", "a", "c", "e">>, <<"a", "p", "p">>}

\* The direction of every request is `d`.
AllDirections(d) == \A n \in 1..Len(artCalls) : artCalls[n] = d

\* The style whose direction is used: the selected one, isometric-3d when
\* none is given, photorealistic for a value outside the type.
StyleUsed ==
  IF DefaultedStyle(artInput.style) \in VisualStyles
    THEN DefaultedStyle(artInput.style)
    ELSE "photorealistic"

\* The direction of the selected style: the one a prompt without any
\* keyword gets, different from that of every other style of the type.
DirectionOfStyle(d) ==
  /\ d = aestheticInstruction(<<>>, artInput.style)
  /\ d # UiMockupDirection
  /\ \A t \in VisualStyles \ {StyleUsed} :
       d # aestheticInstruction(<<>>, t)

\* C27 (as claimed): the direction is the UI-mockup direction when the
\* prompt contains "ui", "dashboard" or "interface", whatever the style, and
\* otherwise the direction of the selected style, which differs from the
\* direction of every other style; the same prompt and style always give the
\* same direction.
C27_ThreeKeywordsDecide ==
  \A n \in 1..Len(artCalls) :
    /\ AllDirections(artCalls[n])
    /\ IF ContainsOneOf(artInput.prompt, ClaimedKeywords)
         THEN artCalls[n] = UiMockupDirection
         ELSE DirectionOfStyle(artCalls[n])

\* C27 (amended): the direction is the UI-mockup direction when the prompt,
\* in lower case, contains "ui", "screen", "dashboard", "interface" or "app"
\* anywhere, inside another word too, whatever the style, and otherwise the
\* direction of the selected style, which differs from the direction of
\* every other style; the same prompt and style always give the same
\* direction.
C27_FiveKeywordsDecide ==
  \A n \in 1..Len(artCalls) :
    /\ AllDirections(artCalls[n])
    /\ IF ContainsOneOf(artInput.prompt, UiKeywords)
         THEN artCalls[n] = UiMockupDirection
         ELSE DirectionOfStyle(artCalls[n])

\* Two requests were built for the prompt "A UI" with the hand-drawn style:
\* the keyword is found in upper case and the style is overridden.
C27_Witness ==
  /\ artInput.prompt = <<"A", " ", "U", "I">>
  /\ artInput.style = "hand-drawn"
  /\ Len(artCalls) = 2
  /\ artCalls[1] = UiMockupDirection
  /\ artCalls[2] = UiMockupDirection

\* ---- C28 ----
\* A status update never lowers a reported number: a field that one of the
\* two statuses does not carry (currentSlideIndex outside the image phase)
\* is not compared.
NotLower(before, after) == before = Absent \/ after = Absent \/ after >= before

\* What the latest status update of a call in progress reported: 10 while
\* the file is read (App.tsx:598), 30 while the structure is awaited (608),
\* and the values of 635-636 while the image of slide i is awaited.
Reported(cyc) ==
  CASE cyc.pc = "encoding" -> [progress |-> 10, currentSlideIndex |-> Absent]
    [] cyc.pc = "structure" -> [progress |-> 30, currentSlideIndex |-> Absent]
    [] cyc.pc = "image" ->
         [progress |-> 40 + ((cyc.i + 1) * 60) \div Len(cyc.updatedSlides),
          currentSlideIndex |-> cyc.i + 1]
    [] OTHER -> [progress |-> Absent, currentSlideIndex |-> Absent]

\* The step is the catch of the call (App.tsx:652-655).
Catches(c) == cycles'[c].pc = "done" /\ status'.stage = "ERROR"

\* C28 (as claimed): every status update of a call of handleGenerate on its
\* way to COMPLETE (every update but the one of its catch) reports a
\* progress and a currentSlideIndex at least those of the call's previous
\* update, a progress within 0..100 and a currentSlideIndex that is at most
\* totalSlides.
C28_ProgressNeverDecreases ==
  [][\A c \in Cycles :
       (CycleStep(c) /\ ~Catches(c)) =>
         /\ NotLower(Reported(cycles[c]).progress, status'.progress)
         /\ NotLower(Reported(cycles[c]).currentSlideIndex, status'.currentSlideIndex)
         /\ status'.progress \in 0..100
         /\ status'.currentSlideIndex # Absent =>
              status'.currentSlideIndex <= status'.totalSlides]_vars

\* ---- C29 ----
\* The number of Structure Generator requests a call has issued.
StructureRequests(log) == Len(IndicesOf(log, "structReq"))

\* C29 (as claimed): a call of handleGenerate never issues a second
\* Structure Generator request; the one it issues when it gets as far as
\* the structure phase carries the document whenever a file was chosen,
\* whatever media type the file declares, and carries no document only when
\* no file was chosen.
C29_RequestCarriesDocument ==
  [][\A c \in Cycles :
       CycleStep(c) =>
         /\ StructureRequests(cycles'[c].log) <= 1
         /\ HasEvent(cycles'[c].log, "structOk") =>
              StructureRequests(cycles'[c].log) = 1
         /\ (cycles[c].pc # "structure" /\ cycles'[c].pc = "structure") =>
              /\ StructureRequests(cycles'[c].log) = 1
              /\ cycles'[c].request = "doc" <=> cycles'[c].file # "none"]_vars

\* ---- C30 ----
\* C30 (as claimed): every republish of the image loop leaves the title and
\* the style of the Store as they were just before it, whoever wrote them
\* last, and leaves the slides as many as they were and in the same order.
C30_LoopKeepsTitleAndStyle ==
  [][\A c \in Cycles :
       (ImageStep(c) /\ presentation # <<>>) =>
         /\ presentation' # <<>>
         /\ presentation'[1].title = presentation[1].title
         /\ presentation'[1].style = presentation[1].style
         /\ Len(presentation'[1].slides) = Len(presentation[1].slides)
         /\ \A j \in 1..Len(presentation[1].slides) :
              presentation'[1].slides[j].id = presentation[1].slides[j].id]_vars

====
